---- MODULE Spec2Model ----
(***************************************************************************)
(* A model of nexus-typescript-client: the NexusClient class of            *)
(* src/index.ts (constructor and send) together with the parts of the      *)
(* host it calls: JSON.stringify, Array.isArray, the injected or global    *)
(* fetch function and the Response objects that function resolves with.    *)
(*                                                                         *)
(* The host is assumed to define a global fetch (the NexusClientOptions    *)
(* type makes options.fetch optional and line 20 reads the global).        *)
(***************************************************************************)
EXTENDS Integers, Sequences, FiniteSets, TLC

\* How many clients may be constructed and how many send calls may be made.
MaxClients == 2
MaxCalls == 2

(***************************************************************************)
(* JavaScript values.  A JS string is a sequence of chunks: a chunk is     *)
(* either one character that JSON escapes, or a run of characters that it  *)
(* copies.  An object is its sequence of own enumerable properties in      *)
(* insertion order; an array is its sequence of elements.  Cycle stands    *)
(* for a property whose value is an object that (transitively) contains    *)
(* the property, as in `event.self = event`.                               *)
(***************************************************************************)
Undefined == [t |-> "undefined", s |-> <<>>, n |-> 0, kv |-> <<>>]
Null == [t |-> "null", s |-> <<>>, n |-> 0, kv |-> <<>>]
Cycle == [t |-> "cycle", s |-> <<>>, n |-> 0, kv |-> <<>>]
Str(s) == [t |-> "string", s |-> s, n |-> 0, kv |-> <<>>]
Num(n) == [t |-> "number", s |-> <<>>, n |-> n, kv |-> <<>>]
Prop(k, v) == [k |-> k, v |-> v]
Obj(props) == [t |-> "object", s |-> <<>>, n |-> 0, kv |-> props]
Arr(elems) == [t |-> "array", s |-> <<>>, n |-> 0,
               kv |-> [i \in 1..Len(elems) |-> Prop(<<>>, elems[i])]]

\* Array.isArray
IsArray(v) == v.t = "array"

\* The concatenation of a sequence of strings, with sep between them (the
\* two halves are joined first, so that long sequences do not nest deeply).
RECURSIVE Join(_, _)
Join(strs, sep) ==
    IF strs = <<>> THEN ""
    ELSE IF Len(strs) = 1 THEN strs[1]
    ELSE LET half == Len(strs) \div 2
         IN Join(SubSeq(strs, 1, half), sep) \o sep
               \o Join(SubSeq(strs, half + 1, Len(strs)), sep)

\* QuoteJSONString of ECMAScript's JSON.stringify.
EscapeChunk(c) ==
    CASE c = "\"" -> "\\\""
      [] c = "\\" -> "\\\\"
      [] c = "\n" -> "\\n"
      [] c = "\t" -> "\\t"
      [] OTHER -> c
QuoteJSONString(s) ==
    "\"" \o Join([i \in 1..Len(s) |-> EscapeChunk(s[i])], "") \o "\""

\* JSON.stringify throws a TypeError when the value is cyclic.
RECURSIVE HasCycle(_)
HasCycle(v) ==
    \/ v.t = "cycle"
    \/ /\ v.t \in {"object", "array"}
       /\ \E i \in 1..Len(v.kv) : HasCycle(v.kv[i].v)

\* SerializeJSONProperty: an object drops the properties whose value is
\* undefined, an array writes null for them.
RECURSIVE SerializeJSONProperty(_)
SerializeJSONProperty(v) ==
    CASE v.t = "null" -> "null"
      [] v.t = "undefined" -> "null"
      [] v.t = "number" -> ToString(v.n)
      [] v.t = "string" -> QuoteJSONString(v.s)
      [] v.t = "array" ->
           "[" \o Join([i \in 1..Len(v.kv) |-> SerializeJSONProperty(v.kv[i].v)], ",") \o "]"
      [] v.t = "object" ->
           LET kept == SelectSeq(v.kv, LAMBDA p : p.v.t # "undefined")
           IN "{" \o Join([i \in 1..Len(kept) |->
                              QuoteJSONString(kept[i].k) \o ":" \o SerializeJSONProperty(kept[i].v)],
                          ",") \o "}"

\* Error objects.  id is the identity of the object: the errors the host
\* raises are distinct objects, an error the client creates is a new one.
Err(src, id, name, message) == [src |-> src, id |-> id, name |-> name, message |-> message]
NoError == Err("none", 0, "", "")
SerializerError == Err("serializer", 1, "TypeError", "Converting circular structure to JSON")
TransportErrors ==
    { Err("transport", 2, "Error", "Network failure"),
      Err("transport", 3, "AbortError", "Request timeout") }
BodyErrors == { Err("body", 4, "TypeError", "Body is unusable") }

\* JSON.stringify(value) for a value that is not undefined.
JSONStringify(v) ==
    IF HasCycle(v) THEN [threw |-> TRUE, s |-> "", error |-> SerializerError]
    ELSE [threw |-> FALSE, s |-> SerializeJSONProperty(v), error |-> NoError]

(***************************************************************************)
(* The inputs of the model.                                                *)
(***************************************************************************)
\* An option that may be missing from NexusClientOptions.
Given(val) == [present |-> TRUE, val |-> val]
Missing == [present |-> FALSE, val |-> ""]
Options(url, token, fetchOpt) == [url |-> url, token |-> token, fetch |-> fetchOpt]

CtorInputs ==
    { Options(Given("https://api.test/events"), Given("abc"), Missing),
      Options(Given("https://b.test/hook"), Given("xyz"), Given("customFetch")),
      Options(Given(""), Given("abc"), Missing),
      Options(Given("https://b.test/hook"), Missing, Given("customFetch")),
      Options(Missing, Given(""), Missing) }

\* The functions the global `fetch` may be bound to.
GlobalFetches == {"fetchA", "fetchB"}

EventX == Obj(<<Prop(<<"type">>, Str(<<"x">>))>>)
EventY == Obj(<<Prop(<<"type">>, Str(<<"y">>)), Prop(<<"n">>, Num(1))>>)
EventQ == Obj(<<Prop(<<"type">>, Str(<<"a", "\"", "b">>)),
                Prop(<<"u">>, Undefined), Prop(<<"v">>, Null)>>)
EventCircular == Obj(<<Prop(<<"type">>, Str(<<"circular">>)), Prop(<<"self">>, Cycle)>>)

SendInputs ==
    { EventX, EventQ, EventCircular, Null,
      Arr(<<>>), Arr(<<EventY, EventX, EventX>>) }

\* The Response objects a transport may resolve with, as they are created.
ResponseObject(ok, status, statusText) ==
    [ok |-> ok, status |-> status, statusText |-> statusText, textCalls |-> 0]
ResponseIds == {"r200", "r404", "r500"}
ResponseObjects ==
    [id \in ResponseIds |->
        CASE id = "r200" -> ResponseObject(TRUE, 200, "OK")
          [] id = "r404" -> ResponseObject(FALSE, 404, "Not Found")
          [] id = "r500" -> ResponseObject(FALSE, 500, "Error")]
\* What response.text() may resolve with.
BodyTexts == {"", "missing"}

(***************************************************************************)
(* The state.                                                              *)
(***************************************************************************)
VARIABLES
    globalFetch,    \* the function the host's global `fetch` is bound to
    clients,        \* the NexusClient objects constructed, in order
    ctor,           \* the latest call of the constructor and how it ended
    calls,          \* the calls of send, in order, each with its promise
    requests,       \* the invocations of transport functions, in order
    responses       \* the Response objects, by identity

vars == <<globalFetch, clients, ctor, calls, requests, responses>>

Pending == [kind |-> "pending", value |-> "none", error |-> NoError]
Fulfilled(value) == [kind |-> "fulfilled", value |-> value, error |-> NoError]
Rejected(error) == [kind |-> "rejected", value |-> "none", error |-> error]

NoCtor == [called |-> FALSE, options |-> Options(Missing, Missing, Missing),
           threw |-> FALSE, error |-> NoError]

Init ==
    /\ globalFetch = "fetchA"
    /\ clients = <<>>
    /\ ctor = NoCtor
    /\ calls = <<>>
    /\ requests = <<>>
    /\ responses = ResponseObjects

(***************************************************************************)
(* new NexusClient(options)                                                *)
(***************************************************************************)
\* !x for an optional string: undefined and "" are falsy.
Falsy(opt) == ~opt.present \/ opt.val = ""

\* A guard that asks for both to be missing (&& written for ||).
ConfigInvalidBoth(url, token) == Falsy(url) /\ Falsy(token)
\* The guard of line 22.
ConfigInvalid(url, token) == Falsy(url) \/ Falsy(token)

\* The error of line 23.  The source writes the two names between backquotes,
\* which a TLA+ string cannot hold: they are written between apostrophes here.
ConfigError == Err("client", 0, "Error", "NexusClient requires both 'url' and 'token'.")

\* The operands the other way round (fetch || options.fetch): the global wins.
FetchFnGlobalFirst(options) == globalFetch
\* options.fetch || fetch, evaluated when the constructor runs.
FetchFn(options) == IF options.fetch.present THEN options.fetch.val ELSE globalFetch

NexusClient(options) ==
    [url |-> options.url.val, token |-> options.token.val, fetchFn |-> FetchFn(options)]

\* A constructor that probes the endpoint through the transport it stored.
ConstructProbing(options) ==
    /\ Len(clients) < MaxClients
    /\ IF ConfigInvalid(options.url, options.token)
       THEN /\ ctor' = [called |-> TRUE, options |-> options, threw |-> TRUE,
                        error |-> ConfigError]
            /\ clients' = clients
            /\ requests' = requests
       ELSE /\ ctor' = [called |-> TRUE, options |-> options, threw |-> FALSE,
                        error |-> NoError]
            /\ clients' = Append(clients, NexusClient(options))
            /\ requests' = Append(requests,
                               [call |-> 0, fn |-> FetchFn(options),
                                url |-> options.url.val,
                                init |-> [method |-> "HEAD"]])
    /\ UNCHANGED <<globalFetch, calls, responses>>
\* Lines 17-25.
Construct(options) ==
    /\ Len(clients) < MaxClients
    /\ IF ConfigInvalid(options.url, options.token)
       THEN /\ ctor' = [called |-> TRUE, options |-> options, threw |-> TRUE,
                        error |-> ConfigError]
            /\ clients' = clients
       ELSE /\ ctor' = [called |-> TRUE, options |-> options, threw |-> FALSE,
                        error |-> NoError]
            /\ clients' = Append(clients, NexusClient(options))
    /\ UNCHANGED <<globalFetch, calls, requests, responses>>

\* The host rebinds the global fetch (as the tests do with global.fetch = ...).
ReplaceGlobalFetch ==
    /\ \E f \in GlobalFetches \ {globalFetch} : globalFetch' = f
    /\ UNCHANGED <<clients, ctor, calls, requests, responses>>

(***************************************************************************)
(* client.send(events)                                                     *)
(***************************************************************************)
\* A payload that is the input as it came (no wrapping of a single event).
PayloadUnwrapped(events) == events
\* A payload that wraps every input, an array too.
PayloadRewrapped(events) == Arr(<<events>>)
\* A payload that ends with the number of calls made before this one.
PayloadNumbered(events) ==
    LET payload == IF IsArray(events) THEN events ELSE Arr(<<events>>)
    IN [payload EXCEPT !.kv = Append(@, Prop(<<>>, Num(Len(calls))))]
\* Line 28: a value that is not an array is wrapped in a one-element array.
Payload(events) == IF IsArray(events) THEN events ELSE Arr(<<events>>)

\* Request options whose Authorization header is the bare token.
RequestInitBareToken(token, body) ==
    [method |-> "POST",
     headers |-> ("Content-Type" :> "application/json") @@ ("Authorization" :> token),
     body |-> body]
\* Request options whose body is an envelope that carries the token too.
RequestInitTokenInBody(token, body) ==
    [method |-> "POST",
     headers |-> ("Content-Type" :> "application/json")
                 @@ ("Authorization" :> "Bearer " \o token),
     body |-> "{\"token\":\"" \o token \o "\",\"events\":" \o body \o "}"]
\* Lines 31-36: the second argument of the transport call.
RequestInit(token, body) ==
    [method |-> "POST",
     headers |-> ("Content-Type" :> "application/json")
                 @@ ("Authorization" :> "Bearer " \o token),
     body |-> body]

\* A transport looked up when send runs: the global fetch of that moment for
\* a client that was built without options.fetch.
TransportLateBound(this) ==
    IF this.fetchFn \in GlobalFetches THEN globalFetch ELSE this.fetchFn
\* Line 30: the function called is the one the constructor stored.
Transport(this) == this.fetchFn

\* A dispatch that invokes the transport a second time with the same request.
DispatchTwice(log, request) == Append(Append(log, request), request)
\* Line 30: the transport function is invoked, once.
Dispatch(log, request) == Append(log, request)

\* A send that is not async: what it throws reaches the caller, synchronously.
ThrowToCaller(error) == [thrown |-> error, settled |-> Pending]
\* send is an async function: what it throws rejects the promise it returned,
\* and nothing is thrown to the caller.
Throw(error) == [thrown |-> NoError, settled |-> Rejected(error)]

\* Line 36: an exception of JSON.stringify is not caught.
SerializeThrew(error) == error
\* A catch around the transport call that throws a new Error with the message.
FetchRejectedWrapped(error) == Err("client", 0, "Error", error.message)
\* Line 30: a rejection of the awaited transport promise is not caught.
FetchRejected(error) == error
\* A body read whose failure is swallowed and reported as a delivery failure.
TextRejectedSwallowed(error) == Err("client", 0, "Error", "Failed to send event(s)")
\* Line 40: a rejection of the awaited response.text() is not caught.
TextRejected(error) == error

\* A failure test on the status that counts server errors only.
BodyIsReadOnServerError(response) == response.status >= 500
\* A body that is read whatever the ok flag says.
BodyIsReadAlways(response) == TRUE
\* Line 39: the body is read when the response is not ok.
BodyIsRead(response) == ~response.ok

\* Line 44.
ReturnValue(response) == response

\* The message of the first version of the client: the status text alone.
ErrorMessageStatusText(status, statusText, errorBody) ==
    "Failed to send event: " \o statusText
\* Line 41.
ErrorMessage(status, statusText, errorBody) ==
    "Failed to send event(s): " \o ToString(status) \o " " \o statusText
        \o " - " \o errorBody
DeliveryError(message) == Err("client", 0, "Error", message)

NewCall(c, events) ==
    [client |-> c, events |-> events, pc |-> "fetch", thrown |-> NoError,
     settled |-> Pending, response |-> "none", transportError |-> NoError,
     bodyRead |-> "no", errorBody |-> "", textError |-> NoError, reads |-> 0]

\* A send that invokes the transport before it serializes the payload (the
\* body handed over as a stream that is filled afterwards).
SendDispatchFirst(c, events) ==
    /\ Len(calls) < MaxCalls
    /\ c \in DOMAIN clients
    /\ LET this == clients[c]
           json == JSONStringify(Payload(events))
           outcome == Throw(SerializeThrew(json.error))
       IN /\ requests' = Dispatch(requests,
                             [call |-> Len(calls) + 1, fn |-> Transport(this),
                              url |-> this.url,
                              init |-> RequestInit(this.token, json.s)])
          /\ calls' = IF json.threw
                      THEN Append(calls, [NewCall(c, events) EXCEPT
                                  !.pc = "done", !.thrown = outcome.thrown,
                                  !.settled = outcome.settled])
                      ELSE Append(calls, NewCall(c, events))
    /\ UNCHANGED <<globalFetch, clients, ctor, responses>>
\* The synchronous part of send: lines 28-37 up to the first await.
Send(c, events) ==
    /\ Len(calls) < MaxCalls
    /\ c \in DOMAIN clients
    /\ LET this == clients[c]
           payload == Payload(events)
           json == JSONStringify(payload)
           outcome == Throw(SerializeThrew(json.error))
       IN IF json.threw
          THEN /\ calls' = Append(calls, [NewCall(c, events) EXCEPT
                                  !.pc = "done", !.thrown = outcome.thrown,
                                  !.settled = outcome.settled])
               /\ requests' = requests
          ELSE /\ calls' = Append(calls, NewCall(c, events))
               /\ requests' = Dispatch(requests,
                                  [call |-> Len(calls) + 1, fn |-> Transport(this),
                                   url |-> this.url,
                                   init |-> RequestInit(this.token, json.s)])
    /\ UNCHANGED <<globalFetch, clients, ctor, responses>>

\* A continuation that waits on a timer of its own before it returns an ok
\* response.
FetchResolveWaiting(i, r) ==
    /\ i \in DOMAIN calls
    /\ calls[i].pc = "fetch"
    /\ IF BodyIsRead(responses[r])
       THEN /\ calls' = [calls EXCEPT ![i].pc = "text", ![i].response = r,
                                      ![i].bodyRead = "pending",
                                      ![i].reads = @ + 1]
            /\ responses' = [responses EXCEPT ![r].textCalls = @ + 1]
       ELSE /\ calls' = [calls EXCEPT ![i].pc = "timer", ![i].response = r]
            /\ responses' = responses
    /\ UNCHANGED <<globalFetch, clients, ctor, requests>>
\* A continuation that marks the caller's events as sent once they went through.
FetchResolveMarking(i, r) ==
    /\ i \in DOMAIN calls
    /\ calls[i].pc = "fetch"
    /\ IF BodyIsRead(responses[r])
       THEN /\ calls' = [calls EXCEPT ![i].pc = "text", ![i].response = r,
                                      ![i].bodyRead = "pending",
                                      ![i].reads = @ + 1]
            /\ responses' = [responses EXCEPT ![r].textCalls = @ + 1]
       ELSE /\ calls' = [calls EXCEPT ![i].pc = "done", ![i].response = r,
                                      ![i].settled = Fulfilled(ReturnValue(r)),
                                      ![i].events.kv =
                                          Append(@, Prop(<<"sent">>, Num(1)))]
            /\ responses' = responses
    /\ UNCHANGED <<globalFetch, clients, ctor, requests>>
\* The transport's promise resolves with response r: lines 39-44, up to the
\* await of line 40 when the body is read.
FetchResolve(i, r) ==
    /\ i \in DOMAIN calls
    /\ calls[i].pc = "fetch"
    /\ IF BodyIsRead(responses[r])
       THEN /\ calls' = [calls EXCEPT ![i].pc = "text", ![i].response = r,
                                      ![i].bodyRead = "pending",
                                      ![i].reads = @ + 1]
            /\ responses' = [responses EXCEPT ![r].textCalls = @ + 1]
       ELSE /\ calls' = [calls EXCEPT ![i].pc = "done", ![i].response = r,
                                      ![i].settled = Fulfilled(ReturnValue(r))]
            /\ responses' = responses
    /\ UNCHANGED <<globalFetch, clients, ctor, requests>>

\* A failure handler that forgets the token of the client whose request failed.
FetchRejectDroppingToken(i, e) ==
    /\ i \in DOMAIN calls
    /\ calls[i].pc = "fetch"
    /\ calls' = [calls EXCEPT ![i].pc = "done", ![i].transportError = e,
                              ![i].settled = Rejected(e)]
    /\ clients' = [clients EXCEPT ![calls[i].client].token = ""]
    /\ UNCHANGED <<globalFetch, ctor, requests, responses>>
\* A failure that is shared: it rejects every call that awaits its transport.
FetchRejectShared(i, e) ==
    /\ i \in DOMAIN calls
    /\ calls[i].pc = "fetch"
    /\ calls' = [j \in DOMAIN calls |->
                    IF j = i
                    THEN [calls[j] EXCEPT !.pc = "done", !.transportError = e,
                                          !.settled = Rejected(e)]
                    ELSE IF calls[j].pc = "fetch"
                    THEN [calls[j] EXCEPT !.pc = "done", !.settled = Rejected(e)]
                    ELSE calls[j]]
    /\ UNCHANGED <<globalFetch, clients, ctor, requests, responses>>
\* The transport's promise rejects with error e.
FetchReject(i, e) ==
    /\ i \in DOMAIN calls
    /\ calls[i].pc = "fetch"
    /\ LET outcome == Throw(FetchRejected(e))
       IN calls' = [calls EXCEPT ![i].pc = "done", ![i].transportError = e,
                                 ![i].thrown = outcome.thrown,
                                 ![i].settled = outcome.settled]
    /\ UNCHANGED <<globalFetch, clients, ctor, requests, responses>>

\* response.text() resolves with text: line 41.
TextResolve(i, text) ==
    /\ i \in DOMAIN calls
    /\ calls[i].pc = "text"
    /\ LET response == responses[calls[i].response]
           outcome == Throw(DeliveryError(
                          ErrorMessage(response.status, response.statusText, text)))
       IN calls' = [calls EXCEPT ![i].pc = "done", ![i].bodyRead = "text",
                                 ![i].errorBody = text,
                                 ![i].thrown = outcome.thrown,
                                 ![i].settled = outcome.settled]
    /\ UNCHANGED <<globalFetch, clients, ctor, requests, responses>>

\* response.text() rejects with error e.
TextReject(i, e) ==
    /\ i \in DOMAIN calls
    /\ calls[i].pc = "text"
    /\ LET outcome == Throw(TextRejected(e))
       IN calls' = [calls EXCEPT ![i].pc = "done", ![i].bodyRead = "failed",
                                 ![i].textError = e,
                                 ![i].thrown = outcome.thrown,
                                 ![i].settled = outcome.settled]
    /\ UNCHANGED <<globalFetch, clients, ctor, requests, responses>>

(***************************************************************************)
(* The helpers of the demos and of the cookbook, which are built on top of *)
(* a client: sendWithRetry and sendEventWithRetry, EventBatcher,           *)
(* EventQueue, CircuitBreaker and FailedEventStorage.  A program that      *)
(* only uses the client has none of them.                                  *)
(***************************************************************************)
VARIABLES
    retry,          \* the running call of sendWithRetry or sendEventWithRetry
    batcher,        \* the EventBatcher
    queue,          \* the EventQueue
    breaker,        \* the CircuitBreaker, its callers and the clock
    storage         \* the FailedEventStorage, its directory and its retry()

helperVars == <<retry, batcher, queue, breaker, storage>>

NoHelper == [made |-> FALSE]

HelpersIdle ==
    /\ retry = NoHelper
    /\ batcher = NoHelper
    /\ queue = NoHelper
    /\ breaker = NoHelper
    /\ storage = NoHelper

Next ==
    \/ (\E options \in CtorInputs : Construct(options)) /\ UNCHANGED helperVars
    \/ ReplaceGlobalFetch /\ UNCHANGED helperVars
    \/ (\E c \in 1..MaxClients, events \in SendInputs : Send(c, events))
          /\ UNCHANGED helperVars
    \/ (\E i \in 1..MaxCalls, r \in ResponseIds : FetchResolve(i, r))
          /\ UNCHANGED helperVars
    \/ (\E i \in 1..MaxCalls, e \in TransportErrors : FetchReject(i, e))
          /\ UNCHANGED helperVars
    \/ (\E i \in 1..MaxCalls, text \in BodyTexts : TextResolve(i, text))
          /\ UNCHANGED helperVars
    \/ (\E i \in 1..MaxCalls, e \in BodyErrors : TextReject(i, e))
          /\ UNCHANGED helperVars

\* A program that uses the client alone.
SpecInit == Init /\ HelpersIdle

Spec == SpecInit /\ [][Next]_<<vars, helperVars>>

(***************************************************************************)
(* Properties.                                                             *)
(***************************************************************************)
\* The transport invocations made by the i-th call of send.
RequestsOf(i) == {k \in DOMAIN requests : requests[k].call = i}

BatchYXX == Arr(<<EventY, EventX, EventX>>)

\* C1: a call of send with a single (non-array) serializable event issues
\* exactly one transport request, whose body is the JSON text of the
\* one-element array holding that event: "[" followed by the event's own JSON
\* text followed by "]".
SingleEventIsSentAsOneElementArray ==
    \A i \in DOMAIN calls :
        LET events == calls[i].events
        IN (events.t = "object" /\ ~HasCycle(events)) =>
              /\ Cardinality(RequestsOf(i)) = 1
              /\ \A k \in RequestsOf(i) :
                   /\ requests[k].init.body
                        = "[" \o SerializeJSONProperty(events) \o "]"
                   /\ events = EventX =>
                        requests[k].init.body = "[{\"type\":\"x\"}]"
                   /\ events = EventQ =>
                        requests[k].init.body = "[{\"type\":\"a\\\"b\",\"v\":null}]"

SingleEventSent ==
    \E i \in DOMAIN calls :
        /\ calls[i].events = EventQ
        /\ \E k \in RequestsOf(i) :
             requests[k].init.body = "[{\"type\":\"a\\\"b\",\"v\":null}]"

\* C2: a call of send with a sequence of serializable events, the empty one
\* included, issues exactly one transport request, whose body is the JSON
\* text of that sequence: the elements' JSON texts in the order given, none
\* dropped, merged or wrapped again; the empty sequence gives "[]".
BatchIsSentUnchanged ==
    \A i \in DOMAIN calls :
        LET events == calls[i].events
        IN (events.t = "array" /\ ~HasCycle(events)) =>
              /\ Cardinality(RequestsOf(i)) = 1
              /\ \A k \in RequestsOf(i) :
                   /\ requests[k].init.body
                        = "[" \o Join([j \in 1..Len(events.kv) |->
                                         SerializeJSONProperty(events.kv[j].v)], ",")
                              \o "]"
                   /\ events = Arr(<<>>) => requests[k].init.body = "[]"
                   /\ events = BatchYXX =>
                        requests[k].init.body
                          = "[{\"type\":\"y\",\"n\":1},{\"type\":\"x\"},{\"type\":\"x\"}]"

BatchAndEmptyBatchSent ==
    \E i, j \in DOMAIN calls :
        /\ calls[i].events = Arr(<<>>) /\ RequestsOf(i) # {}
        /\ calls[j].events = BatchYXX /\ RequestsOf(j) # {}

\* C3: every transport request is made with the URL of the client that sent
\* it and with options that hold exactly method, headers and body: the method
\* is POST and the headers are exactly Content-Type: application/json and
\* Authorization: Bearer <that client's token>.
RequestIsPostWithTwoHeaders ==
    \A k \in DOMAIN requests :
        LET request == requests[k]
            this == clients[calls[request.call].client]
        IN /\ request.url = this.url
           /\ DOMAIN request.init = {"method", "headers", "body"}
           /\ request.init.method = "POST"
           /\ DOMAIN request.init.headers = {"Content-Type", "Authorization"}
           /\ request.init.headers["Content-Type"] = "application/json"
           /\ request.init.headers["Authorization"] = "Bearer " \o this.token
           /\ this.token = "abc" =>
                /\ request.url = "https://api.test/events"
                /\ request.init.headers["Authorization"] = "Bearer abc"

RequestsOfTwoClients ==
    \E k, l \in DOMAIN requests :
        /\ requests[k].url = "https://api.test/events"
        /\ requests[k].init.headers["Authorization"] = "Bearer abc"
        /\ requests[l].url = "https://b.test/hook"
        /\ requests[l].init.headers["Authorization"] = "Bearer xyz"

NotOkRejectsWithStatusAndBody ==
    \A i \in DOMAIN calls :
        LET call == calls[i]
        IN (call.response # "none" /\ ~responses[call.response].ok) =>
              LET response == responses[call.response]
              IN /\ call.reads = 1
                 /\ call.bodyRead # "no"
                 /\ call.bodyRead = "text" =>
                      /\ call.settled.kind = "rejected"
                      /\ call.settled.error.message
                           = "Failed to send event(s): " \o ToString(response.status)
                               \o " " \o response.statusText \o " - " \o call.errorBody
                      /\ (response.status = 404 /\ call.errorBody = "missing") =>
                            call.settled.error.message
                              = "Failed to send event(s): 404 Not Found - missing"
                      /\ (response.status = 500 /\ call.errorBody = "") =>
                            call.settled.error.message
                              = "Failed to send event(s): 500 Error - "

NotFoundRejected ==
    \E i \in DOMAIN calls :
        /\ calls[i].response = "r404"
        /\ calls[i].bodyRead = "text"
        /\ calls[i].errorBody = "missing"
        /\ calls[i].settled.kind = "rejected"

\* C6: when the transport rejected with an error, send is rejected with that
\* same error object (same identity, name and message), and nothing is thrown
\* to the caller.
TransportErrorPassesThrough ==
    \A i \in DOMAIN calls :
        calls[i].transportError # NoError =>
            /\ calls[i].settled.kind = "rejected"
            /\ calls[i].settled.error = calls[i].transportError
            /\ calls[i].transportError \in TransportErrors
            /\ calls[i].settled.error.src # "client"
            /\ calls[i].thrown = NoError

TransportRejected ==
    \E i, j \in DOMAIN calls :
        /\ calls[i].transportError.name = "AbortError"
        /\ calls[i].settled.error.message = "Request timeout"
        /\ calls[j].transportError.message = "Network failure"
        /\ calls[j].settled.kind = "rejected"

\* C7: when the transport resolved with a response that is ok, send is
\* fulfilled with that same response, the call has not read its body, and the
\* response object is as the transport made it (text() never invoked on it).
OkResolvesWithTheResponse ==
    \A i \in DOMAIN calls :
        LET call == calls[i]
        IN (call.response # "none" /\ ResponseObjects[call.response].ok) =>
              /\ call.settled = Fulfilled(call.response)
              /\ call.reads = 0
              /\ call.bodyRead = "no"
              /\ responses[call.response] = ResponseObjects[call.response]

OkResolved ==
    \E i, j \in DOMAIN calls :
        /\ calls[i].response = "r200"
        /\ calls[i].settled.kind = "fulfilled"
        /\ calls[j].response = "r500"
        /\ calls[j].bodyRead = "text"

\* C8 as stated: every call of send has issued exactly one transport request,
\* whatever its input and its outcome.
EveryCallIssuesOneRequest ==
    \A i \in DOMAIN calls : Cardinality(RequestsOf(i)) = 1

\* C8, amended: a call of send whose payload serializes has issued exactly
\* one transport request, whatever the number of events and whether the call
\* is pending, fulfilled or rejected; a call whose payload does not serialize
\* has issued none; no request belongs to anything but a call, and a call has
\* one outcome.
OneRequestPerSerializableCall ==
    /\ \A i \in DOMAIN calls :
          /\ Cardinality(RequestsOf(i)) = IF HasCycle(calls[i].events) THEN 0 ELSE 1
          /\ calls[i].settled.kind \in {"pending", "fulfilled", "rejected"}
          /\ calls[i].pc = "done" <=> (calls[i].settled.kind # "pending")
    /\ \A k \in DOMAIN requests : requests[k].call \in DOMAIN calls
    /\ Len(requests) = Cardinality({i \in DOMAIN calls : ~HasCycle(calls[i].events)})

BatchFailedAfterOneRequest ==
    \E i, j \in DOMAIN calls :
        /\ calls[i].events = BatchYXX
        /\ calls[i].settled.kind = "rejected"
        /\ calls[i].bodyRead = "text"
        /\ Cardinality(RequestsOf(i)) = 1
        /\ calls[j].events = Arr(<<>>)
        /\ calls[j].transportError # NoError

\* C9: when serializing the payload fails, send throws nothing to its caller:
\* the promise it returned is rejected with the serializer's own error object.
SerializerErrorPassesThrough ==
    \A i \in DOMAIN calls :
        HasCycle(calls[i].events) =>
            /\ calls[i].thrown = NoError
            /\ calls[i].settled.kind = "rejected"
            /\ calls[i].settled.error = SerializerError
            /\ calls[i].settled.error.src # "client"

CircularEventRejected ==
    \E i \in DOMAIN calls :
        /\ calls[i].events = EventCircular
        /\ calls[i].settled.kind = "rejected"
        /\ calls[i].settled.error.name = "TypeError"

\* C10: when the response is not ok and reading its body fails, send is
\* rejected with the error of the body read itself, which is none of the
\* "Failed to send event(s)" errors the client builds.
BodyReadFailurePassesThrough ==
    \A i \in DOMAIN calls :
        calls[i].bodyRead = "failed" =>
            LET response == responses[calls[i].response]
            IN /\ ~response.ok
               /\ calls[i].textError \in BodyErrors
               /\ calls[i].settled.kind = "rejected"
               /\ calls[i].settled.error = calls[i].textError
               /\ calls[i].settled.error.src # "client"
               /\ calls[i].settled.error.message # "Failed to send event(s)"
               /\ \A text \in BodyTexts :
                     calls[i].settled.error.message
                        # ErrorMessage(response.status, response.statusText, text)

BodyReadFailed ==
    \E i \in DOMAIN calls :
        /\ calls[i].response = "r404"
        /\ calls[i].bodyRead = "failed"
        /\ calls[i].settled.error.message = "Body is unusable"

\* C11 as stated: a call whose transport completed with a response whose
\* status is outside 200-299 ends rejected with an error built by the client
\* (the "Failed to send event(s)" error), and never fulfilled.
NonSuccessStatusRejectsWithDeliveryError ==
    \A i \in DOMAIN calls :
        LET call == calls[i]
        IN (/\ call.response # "none"
            /\ responses[call.response].status \notin 200..299) =>
              /\ call.settled.kind # "fulfilled"
              /\ call.pc = "done" =>
                   /\ call.settled.kind = "rejected"
                   /\ call.settled.error.src = "client"

\* C11, amended: a call whose transport completed with a response whose ok
\* flag is false (status 404 or 500 here) is never fulfilled; once it has
\* ended it is rejected, with the client's "Failed to send event(s)" error
\* when the body text was read and with the error of the body read when
\* reading failed.  Every fulfilled call holds a response whose ok flag is
\* true.
NotOkResponseAlwaysRejects ==
    /\ \A i \in DOMAIN calls :
          LET call == calls[i]
          IN (call.response # "none" /\ ~responses[call.response].ok) =>
                /\ call.settled.kind # "fulfilled"
                /\ call.pc = "done" =>
                     /\ call.settled.kind = "rejected"
                     /\ call.bodyRead \in {"text", "failed"}
                     /\ call.bodyRead = "text" =>
                          /\ call.settled.error.src = "client"
                          /\ call.settled.error.name = "Error"
                     /\ call.bodyRead = "failed" =>
                          call.settled.error = call.textError
    /\ \A i \in DOMAIN calls :
          calls[i].settled.kind = "fulfilled" =>
              /\ calls[i].settled.value \in ResponseIds
              /\ responses[calls[i].settled.value].ok
              /\ responses[calls[i].settled.value].status \in 200..299

NotOkRejectedBothWays ==
    \E i, j \in DOMAIN calls :
        /\ calls[i].response = "r500"
        /\ calls[i].bodyRead = "failed"
        /\ calls[i].settled.kind = "rejected"
        /\ calls[j].response = "r404"
        /\ calls[j].bodyRead = "text"
        /\ calls[j].settled.error.src = "client"

\* C12: a call of send with null for the events is refused by the client: it
\* issues no transport request and is never fulfilled.
NullEventsAreRefused ==
    \A i \in DOMAIN calls :
        calls[i].events = Null =>
            /\ RequestsOf(i) = {}
            /\ calls[i].settled.kind # "fulfilled"

\* C13: a call of the constructor whose url and token are both non-empty
\* does not throw and creates one client holding that url and that token,
\* and it invokes no transport; the log of transport invocations grows only
\* in a step that is a call of send.
ValidConfigurationConstructsWithoutIO ==
    [][ /\ (/\ ctor' # ctor \/ clients' # clients
            /\ ctor'.options.url.present /\ ctor'.options.url.val # ""
            /\ ctor'.options.token.present /\ ctor'.options.token.val # "")
           => /\ ctor'.called /\ ~ctor'.threw /\ ctor'.error = NoError
              /\ Len(clients') = Len(clients) + 1
              /\ clients'[Len(clients')].url = ctor'.options.url.val
              /\ clients'[Len(clients')].token = ctor'.options.token.val
              /\ requests' = requests
        /\ requests' # requests => Len(calls') = Len(calls) + 1 ]_vars

TwoClientsConstructedNoRequest ==
    /\ ctor.called /\ ~ctor.threw
    /\ Len(clients) = 2
    /\ clients[1].url # clients[2].url
    /\ requests = <<>>

\* C14: a client built without options.fetch stores the function the global
\* fetch is bound to when the constructor runs; the stored function of a
\* client never changes, and every transport invocation of a send call is an
\* invocation of the function its client stored, whatever the global fetch is
\* bound to when send runs.
GlobalFetchIsCapturedAtConstruction ==
    [][ /\ \A c \in DOMAIN clients :
              c \in DOMAIN clients' /\ clients'[c].fetchFn = clients[c].fetchFn
        /\ (Len(clients') = Len(clients) + 1 /\ ~ctor'.options.fetch.present)
              => clients'[Len(clients')].fetchFn = globalFetch
        /\ \A k \in DOMAIN requests' \ DOMAIN requests :
              requests'[k].fn = clients[calls'[requests'[k].call].client].fetchFn ]_vars

\* The second client was built after the global fetch was rebound, and the
\* first client has sent after the second one did.
SentThroughCapturedFetchAfterRebinding ==
    /\ Len(clients) = 2
    /\ clients[1].fetchFn = "fetchA"
    /\ clients[2].fetchFn = "fetchB"
    /\ globalFetch = "fetchB"
    /\ \E k, l \in DOMAIN requests :
          /\ l < k
          /\ calls[requests[l].call].client = 2
          /\ calls[requests[k].call].client = 1
          /\ requests[k].fn = "fetchA"

\* C15: a client built with options.fetch stores that function, and every
\* transport invocation of its send calls is an invocation of that function:
\* never of a function the global fetch is or was bound to, never of the
\* function another client stored.
CustomTransportIsTheOnlyOneUsed ==
    [][ /\ (Len(clients') = Len(clients) + 1 /\ ctor'.options.fetch.present)
              => /\ clients'[Len(clients')].fetchFn = ctor'.options.fetch.val
                 /\ clients'[Len(clients')].fetchFn \notin GlobalFetches
        /\ \A k \in DOMAIN requests' :
              LET this == clients'[calls'[requests'[k].call].client]
              IN this.fetchFn = "customFetch" =>
                    /\ requests'[k].fn = "customFetch"
                    /\ requests'[k].fn \notin GlobalFetches
                    /\ \A c \in DOMAIN clients' :
                          clients'[c].fetchFn # this.fetchFn =>
                              requests'[k].fn # clients'[c].fetchFn ]_vars

CustomAndGlobalTransportUsed ==
    /\ ctor.called /\ ctor.options.fetch.present /\ ~ctor.threw
    /\ \E k, l \in DOMAIN requests :
          /\ requests[k].fn = "customFetch"
          /\ requests[k].url = "https://b.test/hook"
          /\ requests[l].fn \in GlobalFetches

\* C16: no step changes the url, the token or the stored transport of a
\* client that exists, whatever happens to its send calls; any two transport
\* invocations of one client's calls carry the same URL, the same
\* Authorization header and the same transport function.
ConfigurationIsImmutable ==
    [][ /\ \A c \in DOMAIN clients :
              c \in DOMAIN clients' /\ clients'[c] = clients[c]
        /\ \A k, l \in DOMAIN requests' :
              calls'[requests'[k].call].client = calls'[requests'[l].call].client
                 => /\ requests'[k].url = requests'[l].url
                    /\ requests'[k].init.headers["Authorization"]
                         = requests'[l].init.headers["Authorization"]
                    /\ requests'[k].fn = requests'[l].fn ]_vars

SecondRequestAfterFailures ==
    /\ Len(calls) = 2
    /\ calls[1].client = calls[2].client
    /\ calls[1].transportError # NoError
    /\ calls[2].bodyRead = "text"
    /\ Len(requests) = 2
    /\ requests[1].init.headers["Authorization"] = "Bearer abc"

\* The outcome of a call as its own input and the answers to its own request
\* decide it.
OwnOutcome(call) ==
    IF HasCycle(call.events) THEN Rejected(SerializerError)
    ELSE IF call.transportError # NoError THEN Rejected(call.transportError)
    ELSE IF call.response = "none" THEN Pending
    ELSE IF ResponseObjects[call.response].ok THEN Fulfilled(call.response)
    ELSE IF call.bodyRead = "text"
         THEN Rejected(Err("client", 0, "Error",
                  "Failed to send event(s): "
                      \o ToString(ResponseObjects[call.response].status) \o " "
                      \o ResponseObjects[call.response].statusText \o " - "
                      \o call.errorBody))
    ELSE IF call.bodyRead = "failed" THEN Rejected(call.textError)
    ELSE Pending

\* C17: calls of send that overlap are independent.  A step that changes one
\* call leaves every other call as it is; there is one transport request per
\* call whose payload serializes, each with the JSON text of its own call's
\* input as body; and the outcome of each call is the one its own input, the
\* response or failure of its own request and its own body read decide.
ConcurrentCallsAreIndependent ==
    [][ /\ \A i \in DOMAIN calls : \A j \in DOMAIN calls \ {i} :
              calls'[i] # calls[i] => calls'[j] = calls[j]
        /\ Len(requests')
              = Cardinality({i \in DOMAIN calls' : ~HasCycle(calls'[i].events)})
        /\ \A k, l \in DOMAIN requests' :
              requests'[k].call = requests'[l].call => k = l
        /\ \A k \in DOMAIN requests' :
              LET events == calls'[requests'[k].call].events
              IN requests'[k].init.body
                    = IF events.t = "array" THEN SerializeJSONProperty(events)
                      ELSE "[" \o SerializeJSONProperty(events) \o "]"
        /\ \A i \in DOMAIN calls' : calls'[i].settled = OwnOutcome(calls'[i]) ]_vars

\* The second call was made while the first awaited its transport, and has
\* ended while the first still awaits the body of its response.
LaterCallEndedFirst ==
    /\ Len(calls) = 2
    /\ calls[1].client = calls[2].client
    /\ calls[1].events = EventQ
    /\ calls[1].pc = "text"
    /\ calls[2].events = BatchYXX
    /\ calls[2].settled.kind = "fulfilled"

EventsAreNeitherChangedNorKept ==
    [][ /\ \A i \in DOMAIN calls :
              i \in DOMAIN calls' /\ calls'[i].events = calls[i].events
        /\ \A i \in DOMAIN calls' : calls'[i].events \in SendInputs
        /\ \A c \in DOMAIN clients' :
              DOMAIN clients'[c] = {"url", "token", "fetchFn"}
        /\ calls' # calls => clients' = clients ]_vars

EventsSentAndSettled ==
    /\ Len(calls) = 2
    /\ calls[1].events = BatchYXX
    /\ calls[1].settled.kind = "fulfilled"
    /\ calls[2].events = EventX
    /\ calls[2].settled.kind = "rejected"
    /\ calls[2].bodyRead = "text"

\* C20: a call of send whose payload does not serialize has ended without
\* any transport invocation and without any response or body read: its error
\* was raised before the transport could be called.
NoDispatchWhenSerializationFails ==
    \A i \in DOMAIN calls :
        HasCycle(calls[i].events) =>
            /\ RequestsOf(i) = {}
            /\ calls[i].pc = "done"
            /\ calls[i].response = "none"
            /\ calls[i].reads = 0
            /\ calls[i].bodyRead = "no"
            /\ Len(requests) < Len(calls)

CircularCallBesideASentCall ==
    /\ Len(calls) = 2
    /\ calls[1].events = EventCircular
    /\ calls[1].settled.kind = "rejected"
    /\ calls[2].events = EventX
    /\ Len(requests) = 1
    /\ requests[1].call = 2

(***************************************************************************)
(* Two clients that differ in their token only.                            *)
(***************************************************************************)
\* String.prototype.includes
Includes(s, sub) ==
    \E i \in 1..(Len(s) - Len(sub) + 1) : SubSeq(s, i, i + Len(sub) - 1) = sub

TokenCtorInputs ==
    { Options(Given("https://api.test/events"), Given("abc"), Missing),
      Options(Given("https://api.test/events"), Given("xyz"), Missing) }

TokenNext ==
    \/ (\E options \in TokenCtorInputs : Construct(options))
          /\ UNCHANGED helperVars
    \/ (\E c \in 1..MaxClients, events \in SendInputs : Send(c, events))
          /\ UNCHANGED helperVars
    \/ (\E i \in 1..MaxCalls, r \in ResponseIds : FetchResolve(i, r))
          /\ UNCHANGED helperVars
    \/ (\E i \in 1..MaxCalls, e \in TransportErrors : FetchReject(i, e))
          /\ UNCHANGED helperVars
    \/ (\E i \in 1..MaxCalls, text \in BodyTexts : TextResolve(i, text))
          /\ UNCHANGED helperVars
    \/ (\E i \in 1..MaxCalls, e \in BodyErrors : TextReject(i, e))
          /\ UNCHANGED helperVars

TokenSpec == SpecInit /\ [][TokenNext]_<<vars, helperVars>>

\* The transport and the body read have answered two calls alike.
SameAnswers(i, j) ==
    /\ calls[i].response = calls[j].response
    /\ calls[i].transportError = calls[j].transportError
    /\ calls[i].bodyRead = calls[j].bodyRead
    /\ calls[i].errorBody = calls[j].errorBody
    /\ calls[i].textError = calls[j].textError

\* C21: two calls made with the same events by clients that have the same
\* url and transport (and so differ at most in their token) issue equally
\* many requests, equal in url, transport, method, option names, header
\* names, Content-Type and body; when the transport and the body read
\* answered them alike they have the same outcome, the same value and the
\* same error message.  No request body and no error created by the client
\* contains the token of the client that sent the call.
TokenFlowsOnlyIntoAuthorization ==
    /\ \A i, j \in DOMAIN calls :
         LET a == clients[calls[i].client]
             b == clients[calls[j].client]
         IN (a.url = b.url /\ a.fetchFn = b.fetchFn
                /\ calls[i].events = calls[j].events) =>
              /\ Cardinality(RequestsOf(i)) = Cardinality(RequestsOf(j))
              /\ \A k \in RequestsOf(i), l \in RequestsOf(j) :
                   /\ requests[k].url = requests[l].url
                   /\ requests[k].fn = requests[l].fn
                   /\ DOMAIN requests[k].init = DOMAIN requests[l].init
                   /\ requests[k].init.method = requests[l].init.method
                   /\ DOMAIN requests[k].init.headers
                        = DOMAIN requests[l].init.headers
                   /\ requests[k].init.headers["Content-Type"]
                        = requests[l].init.headers["Content-Type"]
                   /\ requests[k].init.body = requests[l].init.body
              /\ SameAnswers(i, j) =>
                   /\ calls[i].settled.kind = calls[j].settled.kind
                   /\ calls[i].settled.value = calls[j].settled.value
                   /\ calls[i].settled.error.message
                        = calls[j].settled.error.message
    /\ \A k \in DOMAIN requests :
         ~Includes(requests[k].init.body,
                   clients[calls[requests[k].call].client].token)
    /\ \A i \in DOMAIN calls :
         calls[i].settled.error.src = "client" =>
            ~Includes(calls[i].settled.error.message,
                      clients[calls[i].client].token)

TwoTokensSameRejection ==
    \E i, j \in DOMAIN calls :
        /\ clients[calls[i].client].token = "abc"
        /\ clients[calls[j].client].token = "xyz"
        /\ calls[i].events = EventQ /\ calls[j].events = EventQ
        /\ SameAnswers(i, j)
        /\ calls[i].response = "r404" /\ calls[i].errorBody = "missing"
        /\ calls[i].settled.error.message
             = "Failed to send event(s): 404 Not Found - missing"
        /\ \E k \in RequestsOf(i), l \in RequestsOf(j) :
             requests[k].init.headers["Authorization"]
                # requests[l].init.headers["Authorization"]

(***************************************************************************)
(* The client under a transport whose promises settle.                     *)
(***************************************************************************)
\* The promise of the transport call of line 30 settles.
TransportSettles(i) ==
    /\ \/ \E r \in ResponseIds : FetchResolve(i, r)
       \/ \E e \in TransportErrors : FetchReject(i, e)
    /\ UNCHANGED helperVars
\* The promise of the response.text() of line 40 settles.
BodyReadSettles(i) ==
    /\ \/ \E text \in BodyTexts : TextResolve(i, text)
       \/ \E e \in BodyErrors : TextReject(i, e)
    /\ UNCHANGED helperVars

LiveSpec ==
    /\ SpecInit
    /\ [][Next]_<<vars, helperVars>>
    /\ \A i \in 1..MaxCalls :
          /\ WF_<<vars, helperVars>>(TransportSettles(i))
          /\ WF_<<vars, helperVars>>(BodyReadSettles(i))

\* C22: a call of send is pending only while it awaits the transport's
\* promise or the body read (it has no wait of its own), and under a
\* transport whose promises settle every call of send eventually settles.
EverySendSettles ==
    /\ [](\A i \in DOMAIN calls :
             calls[i].settled.kind = "pending" <=> calls[i].pc \in {"fetch", "text"})
    /\ \A i \in 1..MaxCalls :
          (i \in DOMAIN calls)
             ~> (i \in DOMAIN calls /\ calls[i].settled.kind # "pending")

BothCallsSettled ==
    /\ Len(calls) = 2
    /\ calls[1].settled.kind = "rejected" /\ calls[1].bodyRead = "failed"
    /\ calls[2].settled.kind = "fulfilled" /\ calls[2].response = "r200"

(***************************************************************************)
(* The helpers run on the client of the demos: a module-level constant     *)
(* that is constructed before any helper is used.                          *)
(***************************************************************************)
DemoOptions ==
    Options(Given("https://api.example.com/events"), Given("your-api-token-here"),
            Missing)

DemoClientInit ==
    /\ globalFetch = "fetchA"
    /\ clients = <<NexusClient(DemoOptions)>>
    /\ ctor = [called |-> TRUE, options |-> DemoOptions, threw |-> FALSE,
               error |-> NoError]
    /\ calls = <<>>
    /\ requests = <<>>
    /\ responses = ResponseObjects

\* NexusError and its subclasses: name, code and message.
NexusError(message, code) ==
    [src |-> "helper", id |-> 0, name |-> "NexusError", message |-> message,
     code |-> code]
ValidationError(message) ==
    [src |-> "helper", id |-> 0, name |-> "ValidationError", message |-> message,
     code |-> "VALIDATION_ERROR"]
NetworkError(message) ==
    [src |-> "helper", id |-> 0, name |-> "NetworkError", message |-> message,
     code |-> "NETWORK_ERROR"]

\* event[key]: the value of an own property, undefined when there is none.
GetProp(event, key) ==
    LET ps == SelectSeq(event.kv, LAMBDA p : p.k = <<key>>)
    IN IF ps = <<>> THEN Undefined ELSE ps[Len(ps)].v

\* ToBoolean
Truthy(v) ==
    CASE v.t \in {"undefined", "null"} -> FALSE
      [] v.t = "string" -> v.s # <<>>
      [] v.t = "number" -> v.n # 0
      [] OTHER -> TRUE

\* The strings new Date(...) parses to a valid date, among those of the model.
DateStrings == { <<"2024-01-01T10:00:00Z">> }

\* EventValidator.validate: the error it throws, NoError when it returns.
Validate(event) ==
    LET type == GetProp(event, "type")
        timestamp == GetProp(event, "timestamp")
    IN IF ~Truthy(type)
       THEN ValidationError("Event type is required")
       ELSE IF type.t # "string"
       THEN ValidationError("Event type must be a non-empty string")
       ELSE IF \E i \in 1..Len(type.s) : Includes(type.s[i], " ")
       THEN ValidationError("Event type should not contain spaces")
       ELSE IF Truthy(timestamp)
               /\ ~(timestamp.t = "string" /\ timestamp.s \in DateStrings)
       THEN ValidationError("Invalid timestamp format")
       ELSE IF HasCycle(event)
       THEN SerializerError
       ELSE NoError

\* The largest batch validateBatch accepts.
MaxBatchLength == 1000

\* EventValidator.validateBatch, for an array.
ValidateBatch(events) ==
    LET n == Len(events.kv)
        bad == {i \in 1..n : Validate(events.kv[i].v) # NoError}
        first == CHOOSE i \in bad : \A j \in bad : i <= j
    IN IF n = 0
       THEN ValidationError("Events array cannot be empty")
       ELSE IF n > MaxBatchLength
       THEN ValidationError("Batch too large: " \o ToString(n)
                                \o " events (max 1000)")
       ELSE IF bad # {}
       THEN ValidationError("Invalid event at index " \o ToString(first - 1) \o ": "
                                \o Validate(events.kv[first].v).message)
       ELSE NoError

(***************************************************************************)
(* sendWithRetry (src/demo/analytics-tracking.ts) and sendEventWithRetry   *)
(* (the cookbook of src/index.test.ts).  retry is the one running call:    *)
(* its arguments, its loop counter, the send call it awaits, the send      *)
(* calls it has made and the promise it returned.  The length of the       *)
(* delay between two attempts is left out.                                 *)
(***************************************************************************)
\* shouldRetry: the default of lines 751-758, or a function given by the
\* caller (one that accepts every error).
ShouldRetryOptions == {"default", "always"}
ShouldRetry(option, error) ==
    IF option = "default"
    THEN \/ Includes(error.message, "fetch failed")
         \/ Includes(error.message, "HTTP 5")
         \/ Includes(error.message, "ETIMEDOUT")
         \/ Includes(error.message, "ECONNREFUSED")
    ELSE TRUE

RetryEvents == { EventX, Obj(<<Prop(<<"type">>, Str(<<>>))>>), Arr(<<EventY>>) }
RetryCounts == {1, 2}
RetryInputs ==
    { <<"sendWithRetry", e, m, s>> :
         e \in RetryEvents, m \in RetryCounts, s \in ShouldRetryOptions }
    \cup { <<"sendEventWithRetry", e, m, "none">> :
              e \in {EventX}, m \in RetryCounts }
\* What the transport may reject with under the helpers: undici's error too.
RetryTransportErrors ==
    TransportErrors \cup { Err("transport", 5, "TypeError", "fetch failed") }

\* The statement after the loop: lines 818-822, and line 598 of the cookbook.
Exhausted(r) ==
    [r EXCEPT !.pc = "done",
              !.settled = Rejected(
                  IF r.fn = "sendWithRetry"
                  THEN NexusError("Failed after " \o ToString(r.maxRetries)
                                      \o " attempts: " \o r.lastError.message,
                                  "MAX_RETRIES_EXCEEDED")
                  ELSE r.lastError)]

\* The catch block: lines 788-815, and lines 581-595 of the cookbook.
Catch(r, error) ==
    LET caught == [r EXCEPT !.lastError = error]
        rethrown ==
            IF r.fn = "sendWithRetry"
            THEN \/ error.name = "ValidationError"
                 \/ Includes(error.message, "HTTP 4")
                 \/ ~ShouldRetry(r.shouldRetry, error)
            ELSE Includes(error.message, "HTTP 4")
    IN IF rethrown
       THEN [caught EXCEPT !.pc = "done", !.settled = Rejected(error)]
       ELSE IF r.attempt < r.maxRetries
       THEN [caught EXCEPT !.pc = "wait"]
       ELSE Exhausted([caught EXCEPT !.attempt = @ + 1])

\* One pass of the loop from its test to its first await: lines 764-775.
Attempt(r) ==
    LET invalid == IF r.fn # "sendWithRetry" THEN NoError
                   ELSE IF IsArray(r.event) THEN ValidateBatch(r.event)
                   ELSE Validate(r.event)
    IN IF r.attempt > r.maxRetries
       THEN retry' = Exhausted(r) /\ UNCHANGED vars
       ELSE IF invalid # NoError
       THEN retry' = Catch(r, invalid) /\ UNCHANGED vars
       ELSE /\ Send(r.client, r.event)
            /\ retry' = [r EXCEPT !.pc = "send", !.call = Len(calls) + 1,
                                  !.sent = Append(@, Len(calls) + 1)]

\* A call of one of the two functions, up to its first await.
SendWithRetry(fn, event, maxRetries, shouldRetry) ==
    Attempt([made |-> TRUE, fn |-> fn, client |-> 1, event |-> event,
             maxRetries |-> maxRetries, shouldRetry |-> shouldRetry,
             attempt |-> 1, pc |-> "attempt", call |-> 0, sent |-> <<>>,
             lastError |-> NoError, settled |-> Pending])

\* The awaited send call has settled: lines 775-787, then the catch block.  The
\* body read of line 779 is taken in the same step.
RetryResume ==
    /\ retry.made /\ retry.pc = "send"
    /\ calls[retry.call].settled.kind # "pending"
    /\ LET settled == calls[retry.call].settled
       IN IF settled.kind = "rejected"
          THEN retry' = Catch(retry, settled.error)
          ELSE IF ~responses[settled.value].ok
          THEN \E text \in BodyTexts :
                  retry' = Catch(retry,
                      NetworkError("HTTP " \o ToString(responses[settled.value].status)
                                       \o ": " \o text))
          ELSE retry' = [retry EXCEPT !.pc = "done",
                                      !.settled = Fulfilled(settled.value)]
    /\ UNCHANGED vars

\* The delay of line 810 has passed: the next pass of the loop.
RetryTimer ==
    /\ retry.made /\ retry.pc = "wait"
    /\ Attempt([retry EXCEPT !.attempt = @ + 1, !.pc = "attempt"])

RetryInit == DemoClientInit /\ HelpersIdle

RetryNext ==
    \/ /\ retry = NoHelper
       /\ \E in \in RetryInputs : SendWithRetry(in[1], in[2], in[3], in[4])
       /\ UNCHANGED <<batcher, queue, breaker, storage>>
    \/ RetryResume /\ UNCHANGED <<batcher, queue, breaker, storage>>
    \/ RetryTimer /\ UNCHANGED <<batcher, queue, breaker, storage>>
    \/ (\E i \in 1..MaxCalls, r \in ResponseIds : FetchResolve(i, r))
          /\ UNCHANGED helperVars
    \/ (\E i \in 1..MaxCalls, e \in RetryTransportErrors : FetchReject(i, e))
          /\ UNCHANGED helperVars
    \/ (\E i \in 1..MaxCalls, text \in BodyTexts : TextResolve(i, text))
          /\ UNCHANGED helperVars
    \/ (\E i \in 1..MaxCalls, e \in BodyErrors : TextReject(i, e))
          /\ UNCHANGED helperVars

RetrySpec == RetryInit /\ [][RetryNext]_<<vars, helperVars>>

\* The send call that the running helper made as its k-th has been rejected
\* with the client's error for a response with a status from lo to hi, and
\* the helper has resumed after it.
SendFailedWithStatus(k, lo, hi) ==
    /\ retry.made
    /\ k \in DOMAIN retry.sent
    /\ LET call == calls[retry.sent[k]]
       IN /\ call.response # "none"
          /\ responses[call.response].status \in lo..hi
          /\ call.bodyRead = "text"
          /\ call.settled.kind = "rejected"
    /\ ~(retry.pc = "send" /\ retry.call = retry.sent[k])

\* C23: once the first send call of a retry helper has failed with the
\* client's error for a 4xx response, the helper has made no other send call
\* and has ended by rethrowing that error.
ClientErrorIsNeverRetried ==
    SendFailedWithStatus(1, 400, 499) =>
        /\ Len(retry.sent) = 1
        /\ retry.pc = "done"
        /\ retry.settled = Rejected(calls[retry.sent[1]].settled.error)

\* C24: a run of sendWithRetry with the default shouldRetry that has ended
\* after its last send call failed with the client's error for a 5xx
\* response has made maxRetries send calls and has failed with the error
\* MAX_RETRIES_EXCEEDED.
ServerErrorIsRetriedToTheLimit ==
    (/\ SendFailedWithStatus(Len(retry.sent), 500, 599)
     /\ retry.fn = "sendWithRetry"
     /\ retry.shouldRetry = "default"
     /\ retry.pc = "done") =>
        /\ Len(retry.sent) = retry.maxRetries
        /\ retry.settled.kind = "rejected"
        /\ retry.settled.error.src = "helper"
        /\ retry.settled.error.code = "MAX_RETRIES_EXCEEDED"

(***************************************************************************)
(* EventBatcher (src/demo/batch-events.ts).  batcher holds the fields of   *)
(* the one batcher, whether its interval timer is set, the number of add   *)
(* calls made, and the calls of flush that got past line 109, each with    *)
(* its eventsToSend and the send call it awaits.                           *)
(***************************************************************************)
\* How many events may be added to a batcher or to a queue.
MaxAdds == 3

DefaultBatchSize == 50
\* options.batchSize: a number, or missing.
BatchSizes == { [present |-> TRUE, val |-> 2], [present |-> FALSE, val |-> 0] }

\* The event of the k-th add call, as the demo numbers them.
BatchEvent(k) ==
    Obj(<<Prop(<<"type">>, Str(<<"user.click">>)),
          Prop(<<"eventId">>, Str(<<"evt_" \o ToString(k)>>))>>)

\* new EventBatcher(client, options): lines 80-87.
BatcherNew(size) ==
    /\ batcher = NoHelper
    /\ batcher' = [made |-> TRUE, client |-> 1, events |-> <<>>,
                   batchSize |-> IF size.present /\ size.val # 0
                                 THEN size.val ELSE DefaultBatchSize,
                   timer |-> TRUE,
                   stats |-> [batches |-> 0, totalEvents |-> 0, errors |-> 0],
                   flushes |-> <<>>, added |-> 0]
    /\ UNCHANGED vars

\* flush() up to its await, on a batcher whose fields are b: lines 108-115.
Flush(b) ==
    IF b.events = <<>>
    THEN batcher' = b /\ UNCHANGED vars
    ELSE /\ Send(b.client, Arr(b.events))
         /\ batcher' = [b EXCEPT !.events = <<>>,
                                 !.flushes = Append(@, [batch |-> b.events,
                                                        call |-> Len(calls) + 1,
                                                        pc |-> "send",
                                                        ok |-> FALSE])]

\* add(event): lines 89-97.
BatcherAdd ==
    /\ batcher.made
    /\ batcher.added < MaxAdds
    /\ LET b == [batcher EXCEPT !.events = Append(@, BatchEvent(batcher.added + 1)),
                                !.added = @ + 1]
       IN IF Len(b.events) >= b.batchSize
          THEN Flush(b)
          ELSE batcher' = b /\ UNCHANGED vars

\* The callback of setInterval finds events to flush: lines 100-105.
BatcherTimer ==
    /\ batcher.made
    /\ batcher.timer
    /\ Len(batcher.events) > 0
    /\ Flush(batcher)

\* destroy(), up to the await inside its flush: lines 137-141.
BatcherDestroy ==
    /\ batcher.made
    /\ batcher.timer \/ batcher.events # <<>>
    /\ Flush([batcher EXCEPT !.timer = FALSE])

\* A catch block that only counts the error: the batch is not put back.
FlushResumeDropping(f) ==
    /\ batcher.made
    /\ f \in DOMAIN batcher.flushes
    /\ batcher.flushes[f].pc = "send"
    /\ calls[batcher.flushes[f].call].settled.kind # "pending"
    /\ batcher' =
          IF calls[batcher.flushes[f].call].settled.kind = "fulfilled"
          THEN [batcher EXCEPT !.stats.batches = @ + 1,
                               !.stats.totalEvents = @ + Len(batcher.flushes[f].batch),
                               !.flushes[f].pc = "done", !.flushes[f].ok = TRUE]
          ELSE [batcher EXCEPT !.stats.errors = @ + 1,
                               !.flushes[f].pc = "done"]
    /\ UNCHANGED vars
\* The send call that flush f awaits has settled: lines 116-124.
FlushResume(f) ==
    /\ batcher.made
    /\ f \in DOMAIN batcher.flushes
    /\ batcher.flushes[f].pc = "send"
    /\ calls[batcher.flushes[f].call].settled.kind # "pending"
    /\ batcher' =
          IF calls[batcher.flushes[f].call].settled.kind = "fulfilled"
          THEN [batcher EXCEPT !.stats.batches = @ + 1,
                               !.stats.totalEvents = @ + Len(batcher.flushes[f].batch),
                               !.flushes[f].pc = "done", !.flushes[f].ok = TRUE]
          ELSE [batcher EXCEPT !.stats.errors = @ + 1,
                               !.events = batcher.flushes[f].batch \o @,
                               !.flushes[f].pc = "done"]
    /\ UNCHANGED vars

BatcherInit == DemoClientInit /\ HelpersIdle

BatcherNext ==
    \/ (\E size \in BatchSizes : BatcherNew(size))
          /\ UNCHANGED <<retry, queue, breaker, storage>>
    \/ BatcherAdd /\ UNCHANGED <<retry, queue, breaker, storage>>
    \/ BatcherTimer /\ UNCHANGED <<retry, queue, breaker, storage>>
    \/ BatcherDestroy /\ UNCHANGED <<retry, queue, breaker, storage>>
    \/ (\E f \in 1..MaxCalls : FlushResume(f))
          /\ UNCHANGED <<retry, queue, breaker, storage>>
    \/ (\E i \in 1..MaxCalls, r \in ResponseIds : FetchResolve(i, r))
          /\ UNCHANGED helperVars
    \/ (\E i \in 1..MaxCalls, e \in TransportErrors : FetchReject(i, e))
          /\ UNCHANGED helperVars
    \/ (\E i \in 1..MaxCalls, text \in BodyTexts : TextResolve(i, text))
          /\ UNCHANGED helperVars
    \/ (\E i \in 1..MaxCalls, e \in BodyErrors : TextReject(i, e))
          /\ UNCHANGED helperVars

BatcherSpec == BatcherInit /\ [][BatcherNext]_<<vars, helperVars>>

\* The places of the event of the k-th add call: in the pending queue, and in
\* the batches of the flushes that are at pc (and, when done, ended as ok says).
InBatcherQueue(k) == {i \in DOMAIN batcher.events : batcher.events[i] = BatchEvent(k)}
InBatches(k, pc, ok) ==
    {p \in (DOMAIN batcher.flushes) \X (1..MaxAdds) :
        /\ batcher.flushes[p[1]].pc = pc
        /\ batcher.flushes[p[1]].ok = ok
        /\ p[2] \in DOMAIN batcher.flushes[p[1]].batch
        /\ batcher.flushes[p[1]].batch[p[2]] = BatchEvent(k)}

\* C25: every event added to the batcher is at exactly one place: in the
\* pending queue, in the batch of one flush that awaits its send call, or in
\* one batch whose send call was fulfilled; a batch counts as sent only when
\* its send call was fulfilled for a request that carried exactly its
\* events, and the statistics count exactly the events sent.
NoEventLostOrDuplicated ==
    batcher.made =>
        /\ \A k \in 1..batcher.added :
              Cardinality(InBatcherQueue(k))
                 + Cardinality(InBatches(k, "send", FALSE))
                 + Cardinality(InBatches(k, "done", TRUE)) = 1
        /\ Len(batcher.events)
              <= Cardinality({k \in 1..batcher.added : InBatcherQueue(k) # {}})
        /\ \A f \in DOMAIN batcher.flushes :
              LET flush == batcher.flushes[f]
              IN /\ flush.pc = "done" =>
                      (flush.ok <=> calls[flush.call].settled.kind = "fulfilled")
                 /\ calls[flush.call].events = Arr(flush.batch)
                 /\ \A r \in RequestsOf(flush.call) :
                       requests[r].init.body = SerializeJSONProperty(Arr(flush.batch))
                 /\ Cardinality(RequestsOf(flush.call)) = 1
        /\ batcher.stats.totalEvents
              = Cardinality({k \in 1..batcher.added : InBatches(k, "done", TRUE) # {}})

FailedBatchSentAgain ==
    /\ batcher.made
    /\ batcher.added = 3
    /\ Len(batcher.flushes) = 2
    /\ batcher.flushes[1].pc = "done" /\ ~batcher.flushes[1].ok
    /\ batcher.flushes[1].batch = <<BatchEvent(1), BatchEvent(2)>>
    /\ batcher.flushes[2].pc = "done" /\ batcher.flushes[2].ok
    /\ batcher.flushes[2].batch = <<BatchEvent(1), BatchEvent(2), BatchEvent(3)>>
    /\ batcher.events = <<>>

\* The number of the add call that added an event.
AddIndex(event) == CHOOSE k \in 1..MaxAdds : BatchEvent(k) = event

\* C26: the pending queue of the batcher lists its events in the order in
\* which they were added.
PendingQueueKeepsOrder ==
    batcher.made =>
        \A i, j \in DOMAIN batcher.events :
            i < j => AddIndex(batcher.events[i]) < AddIndex(batcher.events[j])

(***************************************************************************)
(* EventQueue (the cookbook of src/index.test.ts).  queue holds the fields *)
(* of the one queue, the number of add calls made, and the calls of flush  *)
(* that got past line 1221, each with its batch and the send call it       *)
(* awaits.                                                                 *)
(***************************************************************************)
MaxBatchSize == 100

\* The queue as constructed, or after n add calls during which the timer has
\* not fired (n below maxBatchSize, so that no add call has flushed).
QueuePrefills == {0, MaxBatchSize - 1}
EventQueue(n) ==
    [made |-> TRUE, client |-> 1, queue |-> [k \in 1..n |-> BatchEvent(k)],
     processing |-> FALSE, flushes |-> <<>>, added |-> n, prefilled |-> n]

\* flush() up to its await, on a queue whose fields are q: lines 1220-1227.
QueueFlush(q) ==
    IF q.processing \/ Len(q.queue) = 0
    THEN queue' = q /\ UNCHANGED vars
    ELSE LET n == IF Len(q.queue) < MaxBatchSize THEN Len(q.queue) ELSE MaxBatchSize
             batch == SubSeq(q.queue, 1, n)
         IN /\ Send(q.client, Arr(batch))
            /\ queue' = [q EXCEPT !.processing = TRUE,
                                  !.queue = SubSeq(q.queue, n + 1, Len(q.queue)),
                                  !.flushes = Append(@, [batch |-> batch,
                                                         call |-> Len(calls) + 1,
                                                         pc |-> "send",
                                                         ok |-> FALSE])]

\* add(event), up to the await inside its flush: lines 1211-1218.
QueueAdd ==
    /\ queue.made
    /\ queue.added < queue.prefilled + MaxAdds
    /\ LET q == [queue EXCEPT !.queue = Append(@, BatchEvent(queue.added + 1)),
                              !.added = @ + 1]
       IN IF Len(q.queue) >= MaxBatchSize
          THEN QueueFlush(q)
          ELSE queue' = q /\ UNCHANGED vars

\* The callback of setInterval, when its flush has something to do: line 1208.
QueueTimer ==
    /\ queue.made
    /\ ~queue.processing /\ Len(queue.queue) > 0
    /\ QueueFlush(queue)

\* A catch block that pushes the failed batch to the back of the queue.
QueueResumeRequeueAtBack(f) ==
    /\ queue.made
    /\ f \in DOMAIN queue.flushes
    /\ queue.flushes[f].pc = "send"
    /\ calls[queue.flushes[f].call].settled.kind # "pending"
    /\ queue' =
          IF calls[queue.flushes[f].call].settled.kind = "fulfilled"
          THEN [queue EXCEPT !.flushes[f].pc = "done", !.flushes[f].ok = TRUE,
                             !.processing = FALSE]
          ELSE [queue EXCEPT !.queue = @ \o queue.flushes[f].batch,
                             !.flushes[f].pc = "done",
                             !.processing = FALSE]
    /\ UNCHANGED vars
\* The send call that flush f awaits has settled: lines 1227-1235.
QueueResume(f) ==
    /\ queue.made
    /\ f \in DOMAIN queue.flushes
    /\ queue.flushes[f].pc = "send"
    /\ calls[queue.flushes[f].call].settled.kind # "pending"
    /\ queue' =
          IF calls[queue.flushes[f].call].settled.kind = "fulfilled"
          THEN [queue EXCEPT !.flushes[f].pc = "done", !.flushes[f].ok = TRUE,
                             !.processing = FALSE]
          ELSE [queue EXCEPT !.queue = queue.flushes[f].batch \o @,
                             !.flushes[f].pc = "done",
                             !.processing = FALSE]
    /\ UNCHANGED vars

QueueInit ==
    /\ DemoClientInit
    /\ retry = NoHelper /\ batcher = NoHelper
    /\ \E n \in QueuePrefills : queue = EventQueue(n)
    /\ breaker = NoHelper /\ storage = NoHelper

QueueNext ==
    \/ QueueAdd /\ UNCHANGED <<retry, batcher, breaker, storage>>
    \/ QueueTimer /\ UNCHANGED <<retry, batcher, breaker, storage>>
    \/ (\E f \in 1..MaxCalls : QueueResume(f))
          /\ UNCHANGED <<retry, batcher, breaker, storage>>
    \/ (\E i \in 1..MaxCalls, r \in ResponseIds : FetchResolve(i, r))
          /\ UNCHANGED helperVars
    \/ (\E i \in 1..MaxCalls, e \in TransportErrors : FetchReject(i, e))
          /\ UNCHANGED helperVars
    \/ (\E i \in 1..MaxCalls, text \in BodyTexts : TextResolve(i, text))
          /\ UNCHANGED helperVars
    \/ (\E i \in 1..MaxCalls, e \in BodyErrors : TextReject(i, e))
          /\ UNCHANGED helperVars

QueueSpec == QueueInit /\ [][QueueNext]_<<vars, helperVars>>

\* The batches of the first n flushes that were sent or are being sent, one
\* after the other.
RECURSIVE Delivery(_)
Delivery(n) ==
    IF n = 0 THEN <<>>
    ELSE Delivery(n - 1)
            \o (IF queue.flushes[n].pc = "send" \/ queue.flushes[n].ok
                THEN queue.flushes[n].batch ELSE <<>>)

\* C27: at most one flush of the queue awaits its send call and at most one
\* send call is pending, the processing flag being set exactly while a flush
\* awaits; and the batches sent, the batch being sent and the queue, one
\* after the other, are the events added, in the order of the add calls, each
\* once.  A batch counts as sent when its send call was fulfilled for a
\* request that carried exactly the batch.
OneSendInFlightAndOrderKept ==
    /\ Cardinality({f \in DOMAIN queue.flushes : queue.flushes[f].pc = "send"}) <= 1
    /\ Cardinality({i \in DOMAIN calls : calls[i].settled.kind = "pending"}) <= 1
    /\ queue.processing <=> \E f \in DOMAIN queue.flushes : queue.flushes[f].pc = "send"
    /\ Delivery(Len(queue.flushes)) \o queue.queue
          = [k \in 1..queue.added |-> BatchEvent(k)]
    /\ \A f \in DOMAIN queue.flushes :
          LET flush == queue.flushes[f]
          IN /\ flush.pc = "done" =>
                  (flush.ok <=> calls[flush.call].settled.kind = "fulfilled")
             /\ Len(flush.batch) <= MaxBatchSize
             /\ Cardinality(RequestsOf(flush.call)) = 1
             /\ \A r \in RequestsOf(flush.call) :
                   requests[r].init.body = SerializeJSONProperty(Arr(flush.batch))

FullBatchSentAfterAFailure ==
    /\ Len(queue.flushes) = 2
    /\ queue.flushes[1].pc = "done" /\ ~queue.flushes[1].ok
    /\ Len(queue.flushes[1].batch) = MaxBatchSize - 1
    /\ queue.flushes[2].pc = "done" /\ queue.flushes[2].ok
    /\ Len(queue.flushes[2].batch) = MaxBatchSize
    /\ Len(queue.queue) = 2
    /\ queue.queue[1] = BatchEvent(MaxBatchSize + 1)

(***************************************************************************)
(* CircuitBreaker (src/demo/analytics-tracking.ts).  breaker holds the     *)
(* fields of the one breaker and the clock that Date.now() reads; it       *)
(* counts the calls of execute, the invocations of the operation, the      *)
(* operations that have not settled yet and those that resolved and        *)
(* failed, and keeps the promise of the latest call as that call left it.  *)
(* An operation is any function: it throws, or it returns a promise that   *)
(* resolves or rejects later.                                              *)
(***************************************************************************)
\* How many calls of execute are made, and how far the clock runs.
MaxExecs == 4
MaxTime == 4

BreakerOptions ==
    { [failureThreshold |-> 1, recoveryTimeout |-> 1],
      [failureThreshold |-> 2, recoveryTimeout |-> 2] }
OperationKinds == {"throws", "returns a promise"}
OperationError == Err("operation", 6, "Error", "Service unavailable")

\* new CircuitBreaker(options): lines 927-937.
BreakerNew(options) ==
    /\ breaker = NoHelper
    /\ breaker' = [made |-> TRUE, options |-> options, failures |-> 0,
                   lastFailureTime |-> 0, state |-> "closed", now |-> 1,
                   executes |-> 0, invoked |-> 0, inflight |-> 0,
                   resolved |-> 0, failed |-> 0, returned |-> Pending]
    /\ UNCHANGED <<vars, retry, batcher, queue, storage>>

\* Time passes.
Tick ==
    /\ breaker.made
    /\ breaker.now < MaxTime
    /\ breaker' = [breaker EXCEPT !.now = @ + 1]
    /\ UNCHANGED <<vars, retry, batcher, queue, storage>>

\* A test that lets the recovery start when exactly recoveryTimeout has passed.
RecoveryDueAtTimeout(b) == b.now - b.lastFailureTime >= b.options.recoveryTimeout
\* Lines 942-943.
RecoveryDue(b) == b.now - b.lastFailureTime > b.options.recoveryTimeout

\* The catch block of lines 969-979, on a breaker whose fields are b.
OperationFailed(b) ==
    [b EXCEPT !.failures = @ + 1,
              !.lastFailureTime = b.now,
              !.state = IF b.failures + 1 >= b.options.failureThreshold
                        THEN "open" ELSE @,
              !.failed = @ + 1]

\* execute(operation), up to its await: lines 939-960.
Execute(kind) ==
    /\ breaker.made
    /\ breaker.executes < MaxExecs
    /\ LET called == [breaker EXCEPT !.executes = @ + 1]
           checked == IF called.state = "open" /\ RecoveryDue(called)
                      THEN [called EXCEPT !.state = "half-open", !.failures = 0]
                      ELSE called
           invoked == [checked EXCEPT !.invoked = @ + 1]
       IN breaker' =
             IF checked.state = "open"
             THEN [checked EXCEPT !.returned = Rejected(
                      NexusError("Circuit breaker is open - service unavailable",
                                 "CIRCUIT_OPEN"))]
             ELSE IF kind = "throws"
             THEN [OperationFailed(invoked) EXCEPT !.returned = Rejected(OperationError)]
             ELSE [invoked EXCEPT !.inflight = @ + 1, !.returned = Pending]
    /\ UNCHANGED <<vars, retry, batcher, queue, storage>>

\* The promise of an operation resolves: lines 962-968.
OperationResolves ==
    /\ breaker.made
    /\ breaker.inflight > 0
    /\ breaker' = IF breaker.state = "half-open"
                  THEN [breaker EXCEPT !.state = "closed", !.failures = 0,
                                       !.inflight = @ - 1, !.resolved = @ + 1]
                  ELSE [breaker EXCEPT !.inflight = @ - 1, !.resolved = @ + 1]
    /\ UNCHANGED <<vars, retry, batcher, queue, storage>>

\* The promise of an operation rejects: lines 969-979.
OperationRejects ==
    /\ breaker.made
    /\ breaker.inflight > 0
    /\ breaker' = [OperationFailed(breaker) EXCEPT !.inflight = @ - 1]
    /\ UNCHANGED <<vars, retry, batcher, queue, storage>>

BreakerInit == DemoClientInit /\ HelpersIdle

BreakerNext ==
    \/ \E options \in BreakerOptions : BreakerNew(options)
    \/ Tick
    \/ \E kind \in OperationKinds : Execute(kind)
    \/ OperationResolves
    \/ OperationRejects

BreakerSpec == BreakerInit /\ [][BreakerNext]_<<vars, helperVars>>

\* C28: a call of execute made while the breaker is open and no more than
\* recoveryTimeout has passed since the last failure returns a promise
\* rejected with the CIRCUIT_OPEN error, does not invoke the operation and
\* leaves state, failures and lastFailureTime as they were; and whenever the
\* breaker becomes or is open, failures is at least failureThreshold.
OpenBreakerRefusesWithoutInvoking ==
    [][ breaker.made =>
          /\ (/\ breaker'.executes = breaker.executes + 1
              /\ breaker.state = "open"
              /\ breaker.now - breaker.lastFailureTime
                    <= breaker.options.recoveryTimeout) =>
                /\ breaker'.returned.kind = "rejected"
                /\ breaker'.returned.error.name = "NexusError"
                /\ breaker'.returned.error.code = "CIRCUIT_OPEN"
                /\ breaker'.invoked = breaker.invoked
                /\ breaker'.inflight = breaker.inflight
                /\ breaker'.state = "open"
                /\ breaker'.failures = breaker.failures
                /\ breaker'.lastFailureTime = breaker.lastFailureTime
          /\ breaker'.state = "open" =>
                breaker'.failures >= breaker'.options.failureThreshold ]_breaker

RefusedAtTheTimeout ==
    /\ breaker.made
    /\ breaker.state = "open"
    /\ breaker.options.recoveryTimeout = 2
    /\ breaker.now - breaker.lastFailureTime = 2
    /\ breaker.returned.kind = "rejected"
    /\ breaker.returned.error.src = "helper"
    /\ breaker.executes = 3
    /\ breaker.invoked = 2

\* C29: an operation that resolves while the breaker is half-open closes it
\* with failures 0, and an operation that fails while the breaker is
\* half-open (the operation of the recovery call included) opens it again:
\* no step in which an operation ends leaves the breaker half-open.
RecoveryAttemptDecidesState ==
    [][ breaker.made =>
          /\ (breaker'.resolved = breaker.resolved + 1
                 /\ breaker.state = "half-open") =>
                (breaker'.state = "closed" /\ breaker'.failures = 0)
          /\ (/\ breaker'.failed = breaker.failed + 1
              /\ \/ breaker.state = "half-open"
                 \/ breaker.state = "open" /\ RecoveryDue(breaker)) =>
                breaker'.state = "open"
          /\ (breaker'.resolved + breaker'.failed
                 > breaker.resolved + breaker.failed) =>
                breaker'.state # "half-open" ]_breaker

(***************************************************************************)
(* FailedEventStorage.retry (src/demo/analytics-tracking.ts).  storage     *)
(* holds the files of the storage directory (name to lines) and the one    *)
(* running call of retry(): the files it listed, its place in them, its    *)
(* two counters, and a record of every file it has finished.  A line is    *)
(* the text save() wrote for an entry, or text that JSON.parse rejects.    *)
(* The directory is used by this call alone, so no rename fails.           *)
(***************************************************************************)
EntryLine(event) == [corrupt |-> FALSE, event |-> event]
CorruptLine == [corrupt |-> TRUE, event |-> Null]

\* The names readdirSync returns, in its order, when each of them exists.
DirOrder ==
    << "failed-events-2024-01-01.jsonl", "failed-events-2024-01-02.jsonl",
       "notes.txt" >>

\* What a file of failed events may hold when retry() is called.
FileContents ==
    { <<EntryLine(Arr(<<EventX>>))>>,
      <<CorruptLine, EntryLine(Arr(<<EventX>>))>>,
      <<EntryLine(Arr(<<>>))>> }
StorageDirs ==
    { (DirOrder[1] :> a) @@ (DirOrder[2] :> b) @@ (DirOrder[3] :> <<>>) :
         a \in FileContents, b \in FileContents }

StartsWith(s, prefix) ==
    Len(prefix) <= Len(s) /\ SubSeq(s, 1, Len(prefix)) = prefix
EndsWith(s, suffix) ==
    Len(suffix) <= Len(s) /\ SubSeq(s, Len(s) - Len(suffix) + 1, Len(s)) = suffix

\* fs.renameSync and fs.unlinkSync on the directory.
Unlink(dir, name) == [n \in DOMAIN dir \ {name} |-> dir[n]]
Rename(dir, old, new) == (new :> dir[old]) @@ Unlink(dir, old)

\* Lines 885-897: the file at the head of the loop is renamed and read.
OpenFile(st) ==
    IF st.run.f > Len(st.run.files)
    THEN st
    ELSE LET file == st.run.files[st.run.f]
         IN [st EXCEPT !.dir = Rename(st.dir, file, file \o ".processing"),
                       !.run.lines = st.dir[file],
                       !.run.l = 1,
                       !.run.fileFailed = 0]

\* retry() from a place in its loops up to its next await or to its return:
\* lines 884-919.
RECURSIVE Advance(_)
Advance(st) ==
    LET run == st.run
    IN IF run.f > Len(run.files)
       THEN [st EXCEPT !.run.pc = "done"]
       ELSE IF run.l > Len(run.lines)
       THEN LET file == run.files[run.f]
                deleted == run.failed = 0
                closed ==
                    [st EXCEPT
                       !.dir = IF deleted
                               THEN Unlink(st.dir, file \o ".processing")
                               ELSE Rename(st.dir, file \o ".processing", file),
                       !.run.log = Append(@, [file |-> file,
                                              lines |-> Len(run.lines),
                                              failed |-> run.fileFailed,
                                              deleted |-> deleted]),
                       !.run.f = @ + 1]
            IN Advance(OpenFile(closed))
       ELSE IF run.lines[run.l].corrupt
       THEN Advance([st EXCEPT !.run.failed = @ + 1, !.run.fileFailed = @ + 1,
                               !.run.l = @ + 1])
       ELSE [st EXCEPT !.run.pc = "await"]

\* A step of retry(): where it stops at a line, sendWithRetry is called with
\* the events of that line and maxRetries 1 (line 902).
StorageStep(st) ==
    LET next == Advance(st)
    IN /\ storage' = next
       /\ IF next.run.pc = "await"
          THEN SendWithRetry("sendWithRetry", next.run.lines[next.run.l].event,
                             1, "default")
          ELSE UNCHANGED <<vars, retry>>

\* A call of retry(): lines 877-882, then the loop.
StorageRetry ==
    /\ storage.made
    /\ storage.run.pc = "idle"
    /\ StorageStep(OpenFile(
          [storage EXCEPT
             !.run = [pc |-> "run",
                      files |-> SelectSeq(DirOrder,
                                   LAMBDA n : /\ n \in DOMAIN storage.dir
                                              /\ StartsWith(n, "failed-events-")
                                              /\ EndsWith(n, ".jsonl")),
                      f |-> 1, lines |-> <<>>, l |-> 1, succeeded |-> 0,
                      failed |-> 0, fileFailed |-> 0, log |-> <<>>]]))

\* The awaited sendWithRetry has settled: lines 903-906, then the loop.
StorageResume ==
    /\ storage.made
    /\ storage.run.pc = "await"
    /\ retry.made /\ retry.pc = "done"
    /\ StorageStep(
          IF retry.settled.kind = "fulfilled"
          THEN [storage EXCEPT !.run.succeeded = @ + 1, !.run.l = @ + 1]
          ELSE [storage EXCEPT !.run.failed = @ + 1, !.run.fileFailed = @ + 1,
                               !.run.l = @ + 1])

StorageInit ==
    /\ DemoClientInit
    /\ retry = NoHelper /\ batcher = NoHelper /\ queue = NoHelper
    /\ breaker = NoHelper
    /\ \E dir \in StorageDirs :
          storage = [made |-> TRUE, dir |-> dir,
                     run |-> [pc |-> "idle", files |-> <<>>, f |-> 1,
                              lines |-> <<>>, l |-> 1, succeeded |-> 0,
                              failed |-> 0, fileFailed |-> 0, log |-> <<>>]]

\* With maxRetries 1 sendWithRetry never waits between attempts.
StorageNext ==
    \/ StorageRetry /\ UNCHANGED <<batcher, queue, breaker>>
    \/ StorageResume /\ UNCHANGED <<batcher, queue, breaker>>
    \/ RetryResume /\ UNCHANGED <<batcher, queue, breaker, storage>>
    \/ (\E i \in 1..MaxCalls, r \in ResponseIds : FetchResolve(i, r))
          /\ UNCHANGED helperVars
    \/ (\E i \in 1..MaxCalls, e \in RetryTransportErrors : FetchReject(i, e))
          /\ UNCHANGED helperVars
    \/ (\E i \in 1..MaxCalls, text \in BodyTexts : TextResolve(i, text))
          /\ UNCHANGED helperVars
    \/ (\E i \in 1..MaxCalls, e \in BodyErrors : TextReject(i, e))
          /\ UNCHANGED helperVars

StorageSpec == StorageInit /\ [][StorageNext]_<<vars, helperVars>>

\* C30: a file that retry() has finished is gone from the directory when
\* none of its lines failed and is back under its own name when one did,
\* whatever happened to the files before it, and never stays under its
\* temporary name; the two counters add up to the lines processed.
RetryDecidesPerFile ==
    /\ \A k \in DOMAIN storage.run.log :
          LET done == storage.run.log[k]
          IN /\ done.deleted <=> done.failed = 0
             /\ (done.file \in DOMAIN storage.dir) <=> done.failed > 0
             /\ (done.file \o ".processing") \notin DOMAIN storage.dir
    /\ storage.run.pc = "done" =>
          storage.run.succeeded + storage.run.failed
             = storage.run.log[1].lines + storage.run.log[2].lines

====
